---------------------------- MODULE Spec2Model ----------------------------
(***************************************************************************)
(* Model of src/src/App.tsx: the regression report view.                   *)
(*                                                                         *)
(*   fmt, explain       the two pure helpers (lines 34-47)                 *)
(*   RegressionReport   the rendered report (lines 124-184)                *)
(*   downloadPdf        the export click handler (lines 104-122)           *)
(*                                                                         *)
(* A JavaScript number is modelled by its mathematical value, the decimal  *)
(* (-1)^neg * m * 10^e.  A JavaScript string is a sequence of one-character*)
(* strings while the code indexes or rewrites it, and a TLA+ string once   *)
(* it is displayed.  The Cyrillic literals of the source are written in    *)
(* English, since a module holds ASCII only.                               *)
(***************************************************************************)
EXTENDS Integers, Sequences, FiniteSets, TLC

VARIABLES
    x,           \* the argument of fmt                      (line 34)
    fmtOut,      \* <<what fmt returned>>, <<>> before      (line 35)
    code,        \* the argument of explain                  (line 38)
    explOut,     \* <<what explain returned>>, <<>> before  (line 46)
    reportData,  \* the imported JSON object, as its entries in the order
                 \* the document gives them                  (lines 3, 100)
    dom,         \* the children of the report <div>, <<>> before the
                 \* first render                             (lines 127-182)
    scrollWidth, \* el.scrollWidth of the report <div>       (line 112)
    clicks,      \* clicks on "Download PDF"                 (line 126)
    importCalls, \* calls of import('html2pdf.js')           (line 121)
    exports,     \* one record per call of downloadPdf       (lines 104-122)
    saves,       \* the calls pdf.default().set(opt).from(el).save(),
                 \* in the order they were made              (line 121)
    unhandled    \* the exports whose promise was rejected with no
                 \* handler attached                         (line 121)

pureVars == <<x, fmtOut, code, explOut>>

appVars == <<reportData, dom, scrollWidth, clicks, importCalls, exports,
             saves, unhandled>>

vars == <<x, fmtOut, code, explOut, reportData, dom, scrollWidth, clicks,
          importCalls, exports, saves, unhandled>>

\* A result variable holds <<>> before the call and <<result>> after it.
NotCalled == <<>>

(***************************************************************************)
(* Bounds of the inputs.                                                   *)
(***************************************************************************)
MaxMant == 15       \* mantissas 0..MaxMant
MaxNegExp == 14     \* decimal exponents -MaxNegExp..MaxExp
MaxExp == 30

(***************************************************************************)
(* Characters and digit strings.                                           *)
(***************************************************************************)
Digits == <<"0", "1", "2", "3", "4", "5", "6", "7", "8", "9">>

DigitChar(d) == Digits[d + 1]

RECURSIVE DigitsOf(_)
\* The decimal digits of a natural number, most significant first.
DigitsOf(n) == IF n < 10 THEN <<DigitChar(n)>>
               ELSE DigitsOf(n \div 10) \o <<DigitChar(n % 10)>>

NumDigits(n) == Len(DigitsOf(n))

Zeros(k) == [i \in 1..k |-> "0"]

RECURSIVE Pow10(_)
Pow10(k) == IF k = 0 THEN 1 ELSE 10 * Pow10(k - 1)

RECURSIVE Join(_)
\* The characters of s as one string.
Join(s) == IF s = <<>> THEN "" ELSE Head(s) \o Join(Tail(s))

Min(S) == CHOOSE i \in S : \A j \in S : i <= j

(***************************************************************************)
(* Numbers.                                                                *)
(***************************************************************************)
Num(neg, m, e) == [neg |-> neg, m |-> m, e |-> e]

\* |v| >= 10^k
AbsGeqPow10(v, k) == v.m > 0 /\ NumDigits(v.m) + v.e > k

\* |v| < 10^k
AbsLtPow10(v, k) == ~AbsGeqPow10(v, k)

\* v < 0 (false of -0)
IsNegative(v) == v.neg /\ v.m > 0

\* Number.prototype.toFixed, the step "let n be an integer for which
\* n / 10^f - x is as close to zero as possible; if there are two such n,
\* pick the larger n": the digits of n, for x = |v|.
RoundedDigits(v, f) ==
    LET sh == v.e + f
    IN  IF v.m = 0 THEN <<"0">>
        ELSE IF sh >= 0 THEN DigitsOf(v.m) \o Zeros(sh)
        ELSE IF -sh > 9 THEN <<"0">>
        ELSE DigitsOf((v.m + (Pow10(-sh) \div 2)) \div Pow10(-sh))

\* The fixed-point digits of |v| with f decimals: n and, if f is not 0, n
\* padded on the left to f + 1 digits, with the point before the last f.
FixedDigits(v, f) ==
    LET n == RoundedDigits(v, f)
        p == IF Len(n) <= f THEN Zeros(f + 1 - Len(n)) \o n ELSE n
        k == Len(p)
    IN  IF f = 0 THEN n
        ELSE SubSeq(p, 1, k - f) \o <<".">> \o SubSeq(p, k - f + 1, k)

RECURSIVE StripZerosNat(_)
\* m without its trailing decimal zeros (m > 0).
StripZerosNat(m) == IF m % 10 = 0 THEN StripZerosNat(m \div 10) ELSE m

\* Number::toString for |v| >= 10^21: the shortest digits s, then the
\* exponent n - 1 after "e+".
NumberToString(v) ==
    LET s == DigitsOf(StripZerosNat(v.m))
        n == NumDigits(v.m) + v.e
    IN  IF Len(s) = 1 THEN s \o <<"e", "+">> \o DigitsOf(n - 1)
        ELSE <<Head(s), ".">> \o Tail(s) \o <<"e", "+">> \o DigitsOf(n - 1)

\* x.toFixed(f) of line 35.
toFixed(v, f) ==
    (IF IsNegative(v) THEN <<"-">> ELSE <<>>)
    \o (IF AbsGeqPow10(v, 21) THEN NumberToString(v) ELSE FixedDigits(v, f))

\* s from position i to its end is one or more "0".
AllZeros(s, i) == i <= Len(s) /\ \A j \in i..Len(s) : s[j] = "0"

\* The regular expression /\.?0+$/ matches s at position i.
MatchAt(s, i) == \/ s[i] = "." /\ AllZeros(s, i + 1)
                 \/ AllZeros(s, i)

\* s.replace(/\.?0+$/, '') of line 35: the leftmost match is removed.
replaceTrailing(s) ==
    LET hits == {i \in 1..Len(s) : MatchAt(s, i)}
    IN  IF hits = {} THEN s ELSE SubSeq(s, 1, Min(hits) - 1)

\* fmt, lines 34-36.
fmt(v) == IF AbsLtPow10(v, -12) THEN <<"0">> ELSE replaceTrailing(toFixed(v, 6))

(***************************************************************************)
(* explain, lines 38-47.                                                   *)
(***************************************************************************)
NEGATIVE == "leading coefficient is negative"            \* line 41
SIGNIFICANT_05 == "significant at alpha=0.05"            \* line 44
NOT_BETTER_05 == "not better at alpha=0.05"              \* line 44
SIGNIFICANT_01 == "significant at alpha=0.01"            \* line 45
NOT_BETTER_01 == "not better at alpha=0.01"              \* line 45

Undefined == "undefined"

\* c[i] of JavaScript (from 0): undefined beyond the end of the string.
CharAt(c, i) == IF i + 1 <= Len(c) THEN c[i + 1] ELSE Undefined

\* c.startsWith(ch)
startsWith(c, ch) == Len(c) >= 1 /\ c[1] = ch

\* c.slice(1)
slice1(c) == IF c = <<>> THEN <<>> ELSE Tail(c)

RECURSIVE join(_, _)
\* p.join(sep)
join(p, sep) == IF p = <<>> THEN ""
                ELSE IF Len(p) = 1 THEN p[1]
                ELSE p[1] \o sep \o join(Tail(p), sep)

\* explain without line 42: the '*' is noted but not consumed.
explainNoSlice(c) ==
    LET p0 == IF startsWith(c, "*") THEN <<NEGATIVE>> ELSE <<>>
        p1 == Append(p0, IF CharAt(c, 0) = "+" THEN SIGNIFICANT_05
                         ELSE NOT_BETTER_05)
        p2 == Append(p1, IF CharAt(c, 1) = "+" THEN SIGNIFICANT_01
                         ELSE NOT_BETTER_01)
    IN  join(p2, ", ")

explain(c) ==
    LET star == startsWith(c, "*")
        p0 == IF star THEN <<NEGATIVE>> ELSE <<>>
        rest == IF star THEN slice1(c) ELSE c
        p1 == Append(p0, IF CharAt(rest, 0) = "+" THEN SIGNIFICANT_05
                         ELSE NOT_BETTER_05)
        p2 == Append(p1, IF CharAt(rest, 1) = "+" THEN SIGNIFICANT_01
                         ELSE NOT_BETTER_01)
    IN  join(p2, ", ")

(***************************************************************************)
(* The report data, lines 18-32, and the view, lines 49-97 and 124-184.    *)
(***************************************************************************)
EPS_RATIO == Num(FALSE, 2, -2)                            \* line 5

CLS == [body |-> "rep-body", h1 |-> "rep-title", section |-> "rep-section",
        table |-> "rep-table", caption |-> "rep-caption",
        thead |-> "rep-thead", tbodyEven |-> "rep-row-even",
        img |-> "rep-img"]                                \* lines 7-16

NBSP == "&nbsp;"                                          \* '\u00A0', line 164

\* A key of a JavaScript object is an array index when it is the canonical
\* decimal string of an integer below 2^32 - 1.
IsArrayIndex(k) == k \in {"9", "10"}

ArrayIndex(k) == IF k = "9" THEN 9 ELSE 10

RECURSIVE SortedIndices(_)
\* The array-index keys among S, in ascending numeric order.
SortedIndices(S) ==
    IF S = {} THEN <<>>
    ELSE LET k == CHOOSE a \in S : \A b \in S : ArrayIndex(a) <= ArrayIndex(b)
         IN  <<k>> \o SortedIndices(S \ {k})

\* Object.entries(reportData), line 132: the array-index keys in ascending
\* numeric order first, then the other keys in the order of their creation.
ObjectEntries(doc) ==
    LET idx == SortedIndices({doc[i].op : i \in {j \in 1..Len(doc) :
                                                  IsArrayIndex(doc[j].op)}})
        entryOf(k) == doc[CHOOSE i \in 1..Len(doc) : doc[i].op = k]
    IN  [i \in 1..Len(idx) |-> entryOf(idx[i])]
        \o SelectSeq(doc, LAMBDA en : ~IsArrayIndex(en.op))

Node(tag, cls, text) ==
    [tag |-> tag, cls |-> cls, text |-> text, thead |-> <<>>, tbody |-> <<>>,
     src |-> "", alt |-> ""]

\* <Intro />, lines 49-97: two sections; the first shows
\* (EPS_RATIO * 100).toFixed(0) followed by " %".
Intro ==
    <<[Node("section", CLS.section, "How polynomial regression works")
          EXCEPT !.alt = Join(toFixed(Num(EPS_RATIO.neg, EPS_RATIO.m,
                                          EPS_RATIO.e + 2), 0)) \o " %"],
      Node("section", CLS.section, "Glossary")>>

\* The header row without its first cell.
THeadNoDeg == <<"a0", "a1", "a2", "a3", "a4", "D[X]", "SD", "Code",
                "Explanation", "Comment">>

\* The header row, lines 138-150.
THead == <<"deg", "a0", "a1", "a2", "a3", "a4", "D[X]", "SD", "Code",
           "Explanation", "Comment">>

\* <td>{m.code}</td>, line 162.
CodeCell(m) == Join(m.code)

\* One body row, lines 155-165; idx counts from 0.
Row(m, idx) ==
    [cls |-> IF idx % 2 # 0 THEN CLS.tbodyEven ELSE Undefined,
     cells |-> <<Join(DigitsOf(m.degree))>>
               \o [i \in 1..Len(m.coef) |-> Join(fmt(m.coef[i]))]
               \o <<Join(fmt(m.var)), Join(fmt(m.sd)), CodeCell(m),
                    explain(m.code),
                    IF m.comment # "" THEN m.comment ELSE NBSP>>]

\* models.map(...), lines 154-166.
TBody(models) == [i \in 1..Len(models) |-> Row(models[i], i - 1)]

\* What one entry of Object.entries renders to, lines 133-180: the caption,
\* the table and the paragraph holding the chart.
Fragment(en) ==
    <<Node("div", CLS.caption, "Operation: " \o en.op),
      [Node("table", CLS.table, "") EXCEPT !.thead = THead,
                                           !.tbody = TBody(en.info.models)],
      [Node("img", CLS.img, "") EXCEPT !.src = "./assets/" \o en.info.image,
                                       !.alt = "chart " \o en.op]>>

RECURSIVE Flatten(_)
Flatten(ss) == IF ss = <<>> THEN <<>> ELSE Head(ss) \o Flatten(Tail(ss))

\* The children of <div className={CLS.body}>, lines 127-182.
RenderReport(doc) ==
    <<Node("h1", CLS.h1, "Regression analysis report")>> \o Intro
    \o Flatten([i \in 1..Len(doc) |-> Fragment(ObjectEntries(doc)[i])])

(***************************************************************************)
(* The report data the model draws from.                                   *)
(***************************************************************************)
MaxOps == 2         \* operations in a ReportData
MaxModels == 3      \* models of an operation

Keys == {"10", "9", "insert"}

ImageOf(k) == k \o ".png"

Codes == <<<<"+", "+">>, <<"*", "-", "+">>, <<"+", "-">>, <<"-", "-">>,
           <<"*", "+", "+">>, <<"-", "+">>>>

\* The j-th sample model: j % 6 coefficients a0.., a code and, for odd j,
\* a comment.
SampleModel(j) ==
    LET n == j % 6
    IN  [degree |-> IF n = 0 THEN 0 ELSE n - 1,
         coef |-> [i \in 1..n |-> Num(i % 2 = 0, 3 * i + j, i - 7)],
         var |-> Num(FALSE, 25 + j, -2),
         sd |-> Num(FALSE, 5, -7 * (j % 2)),
         code |-> Codes[n + 1],
         comment |-> IF j % 2 = 1 THEN "fictitious term" ELSE ""]

\* Runs of consecutive sample models: from the 0th, with no coefficient,
\* and from the 3rd.
ModelLists == {[i \in 1..len |-> SampleModel(start + i - 1)] :
                  len \in 0..MaxModels, start \in {0, 3}}

KeyLists == {ks \in UNION {[1..n -> Keys] : n \in 0..MaxOps} :
                \A i, j \in 1..Len(ks) : i # j => ks[i] # ks[j]}

\* One entry of the document: the operation k with the models ms.
Entry(k, ms) == [op |-> k, info |-> [models |-> ms, image |-> ImageOf(k)]]

ReportDatas ==
    UNION {{[i \in 1..Len(ks) |-> Entry(ks[i], ms[i])] :
            ms \in [1..Len(ks) -> ModelLists]} : ks \in KeyLists}

(***************************************************************************)
(* The export, lines 102-122 and 126.                                      *)
(***************************************************************************)
MaxExports == 2     \* clicks on "Download PDF" in one run

Widths == {800, 1024}       \* the widths the report <div> may take

ReportDiv == "div." \o CLS.body     \* reportRef.current, lines 102, 105, 127

\* The configuration built at lines 106-119, for el.scrollWidth = w.
Opt(w) ==
    [margin |-> <<10, 10, 10, 10>>,
     filename |-> "regression.pdf",
     image |-> [type |-> "jpeg", quality |-> Num(FALSE, 98, -2)],
     html2canvas |-> [scale |-> 1, width |-> w],
     jsPDF |-> [unit |-> "mm", format |-> "a4", orientation |-> "portrait"],
     pagebreak |-> [mode |-> <<"avoid-all", "css">>,
                    avoid |-> <<".rep-table", ".rep-img">>]]

\* code.slice(1) of line 42, were it written back to the model.
SlicedCodes(doc) ==
    [e \in 1..Len(doc) |->
        [doc[e] EXCEPT !.info.models =
            [r \in 1..Len(@) |->
                [@[r] EXCEPT !.code = IF startsWith(@, "*") THEN slice1(@)
                                      ELSE @]]]]

\* A render whose explain writes the consumed code back to the model.
RenderSlicingCode ==
    /\ dom' = RenderReport(reportData)
    /\ reportData' = SlicedCodes(reportData)
    /\ UNCHANGED <<scrollWidth, clicks, importCalls, exports, saves, unhandled>>
    /\ UNCHANGED pureVars

\* React renders RegressionReport, lines 99-185.
Render ==
    /\ dom' = RenderReport(reportData)
    /\ UNCHANGED <<reportData, scrollWidth, clicks, importCalls, exports,
                   saves, unhandled>>
    /\ UNCHANGED pureVars

\* The browser lays the rendered report out anew: el.scrollWidth changes.
Resize(w) ==
    /\ dom # <<>>
    /\ w # scrollWidth
    /\ scrollWidth' = w
    /\ UNCHANGED <<reportData, dom, clicks, importCalls, exports, saves,
                   unhandled>>
    /\ UNCHANGED pureVars

\* A click on the button, line 126, runs downloadPdf, lines 104-122: el
\* and opt are taken, import() is called, and the handler returns.
downloadPdf ==
    /\ dom # <<>>
    /\ clicks < MaxExports
    /\ clicks' = clicks + 1
    /\ importCalls' = importCalls + 1
    /\ exports' = Append(exports, [el |-> ReportDiv, opt |-> Opt(scrollWidth),
                                   stage |-> "importing"])
    /\ UNCHANGED <<reportData, dom, scrollWidth, saves, unhandled>>
    /\ UNCHANGED pureVars

\* The promise of import('html2pdf.js') of export i is fulfilled.
ImportFulfilled(i) ==
    /\ i \in 1..Len(exports)
    /\ exports[i].stage = "importing"
    /\ exports' = [exports EXCEPT ![i].stage = "loaded"]
    /\ UNCHANGED <<reportData, dom, scrollWidth, clicks, importCalls, saves,
                   unhandled>>
    /\ UNCHANGED pureVars

\* A rejected import that is caught and tried again.
ImportRejectedRetry(i) ==
    /\ i \in 1..Len(exports)
    /\ exports[i].stage = "importing"
    /\ importCalls < 2 * MaxExports
    /\ importCalls' = importCalls + 1
    /\ UNCHANGED <<reportData, dom, scrollWidth, clicks, exports, saves,
                   unhandled>>
    /\ UNCHANGED pureVars

\* The promise of import('html2pdf.js') of export i is rejected: the
\* promise .then() returned is rejected too, and nothing handles it.
ImportRejected(i) ==
    /\ i \in 1..Len(exports)
    /\ exports[i].stage = "importing"
    /\ exports' = [exports EXCEPT ![i].stage = "rejected"]
    /\ unhandled' = unhandled \cup {i}
    /\ UNCHANGED <<reportData, dom, scrollWidth, clicks, importCalls, saves>>
    /\ UNCHANGED pureVars

\* A callback that calls save() twice.
ThenCallbackTwice(i) ==
    /\ i \in 1..Len(exports)
    /\ exports[i].stage = "loaded"
    /\ saves' = saves \o [k \in 1..2 |-> [export |-> i, el |-> exports[i].el,
                                           opt |-> exports[i].opt]]
    /\ exports' = [exports EXCEPT ![i].stage = "saving"]
    /\ UNCHANGED <<reportData, dom, scrollWidth, clicks, importCalls,
                   unhandled>>
    /\ UNCHANGED pureVars

\* A callback that builds opt itself, from el.scrollWidth as it is then.
ThenCallbackLateWidth(i) ==
    /\ i \in 1..Len(exports)
    /\ exports[i].stage = "loaded"
    /\ saves' = Append(saves, [export |-> i, el |-> exports[i].el,
                               opt |-> Opt(scrollWidth)])
    /\ exports' = [exports EXCEPT ![i].stage = "saving"]
    /\ UNCHANGED <<reportData, dom, scrollWidth, clicks, importCalls,
                   unhandled>>
    /\ UNCHANGED pureVars

\* The callback of .then(), line 121, runs for export i:
\* pdf.default().set(opt).from(el).save(), with the el and opt of its call.
ThenCallback(i) ==
    /\ i \in 1..Len(exports)
    /\ exports[i].stage = "loaded"
    /\ saves' = Append(saves, [export |-> i, el |-> exports[i].el,
                               opt |-> exports[i].opt])
    /\ exports' = [exports EXCEPT ![i].stage = "saving"]
    /\ UNCHANGED <<reportData, dom, scrollWidth, clicks, importCalls,
                   unhandled>>
    /\ UNCHANGED pureVars

\* The promise save() returned for export i is fulfilled.
SaveFulfilled(i) ==
    /\ i \in 1..Len(exports)
    /\ exports[i].stage = "saving"
    /\ exports' = [exports EXCEPT ![i].stage = "saved"]
    /\ UNCHANGED <<reportData, dom, scrollWidth, clicks, importCalls, saves,
                   unhandled>>
    /\ UNCHANGED pureVars

\* The promise save() returned for export i is rejected: the callback
\* returned it, so the promise of .then() is rejected, with no handler.
SaveRejected(i) ==
    /\ i \in 1..Len(exports)
    /\ exports[i].stage = "saving"
    /\ exports' = [exports EXCEPT ![i].stage = "rejected"]
    /\ unhandled' = unhandled \cup {i}
    /\ UNCHANGED <<reportData, dom, scrollWidth, clicks, importCalls, saves>>
    /\ UNCHANGED pureVars

(***************************************************************************)
(* The specifications.                                                     *)
(***************************************************************************)
IdlePure == /\ x = Num(FALSE, 0, 0)
            /\ fmtOut = NotCalled
            /\ code = <<"+", "+">>
            /\ explOut = NotCalled

IdleExport == /\ scrollWidth \in Widths
              /\ clicks = 0
              /\ importCalls = 0
              /\ exports = <<>>
              /\ saves = <<>>
              /\ unhandled = {}

\* The report data of the runs of the export: two operations, the second
\* under an array-index key.
SampleData ==
    {<<Entry("insert", <<SampleModel(s), SampleModel(s + 1)>>),
       Entry("9", <<SampleModel(s + 2)>>)>> : s \in {1, 4}}

\* The application: the data is loaded, then the report is rendered and
\* exports are triggered and run.
Init == /\ IdlePure
        /\ reportData \in SampleData
        /\ dom = <<>>
        /\ IdleExport

Next == \/ Render
        \/ \E w \in Widths : Resize(w)
        \/ downloadPdf
        \/ \E i \in 1..MaxExports : ImportFulfilled(i)
        \/ \E i \in 1..MaxExports : ImportRejected(i)
        \/ \E i \in 1..MaxExports : ThenCallback(i)
        \/ \E i \in 1..MaxExports : SaveFulfilled(i)
        \/ \E i \in 1..MaxExports : SaveRejected(i)

Spec == Init /\ [][Next]_vars

\* The event loop runs every callback of a fulfilled promise.
FairSpec == Spec /\ \A i \in 1..MaxExports : WF_vars(ThenCallback(i))

\* The view alone, over every report data of the bounds.
InitRender == /\ IdlePure
              /\ reportData \in ReportDatas
              /\ dom = <<>>
              /\ IdleExport

NextRender == Render

SpecRender == InitRender /\ [][NextRender]_vars

(***************************************************************************)
(* The specification of the pure helpers: an argument is drawn and the     *)
(* helper is applied to it.                                                *)
(***************************************************************************)
MaxCodeLen == 3     \* argument strings of explain of up to MaxCodeLen characters

Numbers == {Num(neg, m, e) : neg \in BOOLEAN, m \in 0..MaxMant,
                             e \in (-MaxNegExp)..MaxExp}

CodeChars == {"*", "+", "-"}

CodeStrings == UNION {[1..n -> CodeChars] : n \in 0..MaxCodeLen}

\* The codes of the data model: [*]?[+-][+-].
ValidCodes == {<<a, b>> : a \in {"+", "-"}, b \in {"+", "-"}}
              \cup {<<"*", a, b>> : a \in {"+", "-"}, b \in {"+", "-"}}

IdleApp == /\ reportData = <<>>
           /\ dom = <<>>
           /\ scrollWidth = 800
           /\ clicks = 0
           /\ importCalls = 0
           /\ exports = <<>>
           /\ saves = <<>>
           /\ unhandled = {}

InitPure == /\ x \in Numbers
            /\ fmtOut = NotCalled
            /\ code = <<"+", "+">>
            /\ explOut = NotCalled
            /\ IdleApp

InitExplain == /\ x = Num(FALSE, 0, 0)
               /\ fmtOut = NotCalled
               /\ code \in CodeStrings
               /\ explOut = NotCalled
               /\ IdleApp

CallFmt == /\ fmtOut = NotCalled
           /\ fmtOut' = <<fmt(x)>>
           /\ UNCHANGED <<x, code, explOut>>
           /\ UNCHANGED appVars

CallExplain == /\ explOut = NotCalled
               /\ explOut' = <<explain(code)>>
               /\ UNCHANGED <<x, fmtOut, code>>
               /\ UNCHANGED appVars

NextPure == CallFmt \/ CallExplain

SpecPure == InitPure /\ [][NextPure]_vars

SpecExplain == InitExplain /\ [][NextPure]_vars

(***************************************************************************)
(* What the claims about fmt speak of: the fixed-point rendering, the      *)
(* stripping of its tail, and the number a string parses to.               *)
(***************************************************************************)
\* v in fixed-point notation with f decimals, whatever its magnitude.
FixedPoint(v, f) == (IF IsNegative(v) THEN <<"-">> ELSE <<>>) \o FixedDigits(v, f)

RECURSIVE StripZeros(_)
\* s without its trailing "0" characters.
StripZeros(s) == IF s # <<>> /\ s[Len(s)] = "0"
                 THEN StripZeros(SubSeq(s, 1, Len(s) - 1)) ELSE s

\* s without a trailing decimal point.
StripPoint(s) == IF s # <<>> /\ s[Len(s)] = "."
                 THEN SubSeq(s, 1, Len(s) - 1) ELSE s

HasPoint(s) == \E i \in 1..Len(s) : s[i] = "."

\* No zero ends the decimals of s.
NoTrailingZeros(s) == HasPoint(s) => s[Len(s)] # "0"

NoTrailingPoint(s) == s = <<>> \/ s[Len(s)] # "."

\* Natural numbers of any size: their decimal digits, most significant first.
BigPad(a, n) == [i \in 1..(n - Len(a)) |-> 0] \o a

BigMax(a, b) == IF a >= b THEN a ELSE b

RECURSIVE BigAddFrom(_, _, _, _)
BigAddFrom(a, b, i, c) ==
    IF i = 0 THEN (IF c = 0 THEN <<>> ELSE <<c>>)
    ELSE LET t == a[i] + b[i] + c
         IN  BigAddFrom(a, b, i - 1, t \div 10) \o <<t % 10>>

BigAdd(a, b) == LET n == BigMax(Len(a), Len(b))
                IN  BigAddFrom(BigPad(a, n), BigPad(b, n), n, 0)

RECURSIVE BigSubFrom(_, _, _, _)
BigSubFrom(a, b, i, c) ==
    IF i = 0 THEN <<>>
    ELSE LET t == a[i] - b[i] - c
         IN  BigSubFrom(a, b, i - 1, IF t < 0 THEN 1 ELSE 0)
             \o <<IF t < 0 THEN t + 10 ELSE t>>

\* a - b, for a >= b
BigSub(a, b) == LET n == BigMax(Len(a), Len(b))
                IN  BigSubFrom(BigPad(a, n), BigPad(b, n), n, 0)

BigLeq(a, b) ==
    LET n == BigMax(Len(a), Len(b))
        p == BigPad(a, n)
        q == BigPad(b, n)
        d == {i \in 1..n : p[i] # q[i]}
    IN  d = {} \/ p[Min(d)] < q[Min(d)]

BigDist(a, b) == IF BigLeq(a, b) THEN BigSub(b, a) ELSE BigSub(a, b)

\* The value of the digit character c.
DigitVal(c) == CHOOSE d \in 0..9 : Digits[d + 1] = c

\* The digits ds times 10^k, k >= 0.
BigShift(ds, k) == [i \in 1..Len(ds) |-> DigitVal(ds[i])] \o [i \in 1..k |-> 0]

RECURSIVE NatOf(_)
NatOf(ds) == IF ds = <<>> THEN 0
             ELSE 10 * NatOf(SubSeq(ds, 1, Len(ds) - 1)) + DigitVal(ds[Len(ds)])

\* The number the string s denotes: [-] digits [. digits] [e [+-] digits],
\* as the sign, the digits ds and the exponent e of (-1)^neg * ds * 10^e.
ParseNumber(s) ==
    LET neg == s # <<>> /\ s[1] = "-"
        u == IF neg THEN Tail(s) ELSE s
        es == {i \in 1..Len(u) : u[i] = "e"}
        mant == IF es = {} THEN u ELSE SubSeq(u, 1, Min(es) - 1)
        expo == IF es = {} THEN <<>> ELSE SubSeq(u, Min(es) + 1, Len(u))
        ps == {i \in 1..Len(mant) : mant[i] = "."}
        int == IF ps = {} THEN mant ELSE SubSeq(mant, 1, Min(ps) - 1)
        frac == IF ps = {} THEN <<>> ELSE SubSeq(mant, Min(ps) + 1, Len(mant))
        eneg == expo # <<>> /\ expo[1] = "-"
        edig == IF expo # <<>> /\ expo[1] \in {"+", "-"} THEN Tail(expo) ELSE expo
        ev == IF eneg THEN -NatOf(edig) ELSE NatOf(edig)
    IN  [neg |-> neg, ds |-> int \o frac, e |-> ev - Len(frac)]

\* |p - v| <= 10^k, for a parsed number p and a number v.
Within(p, v, k) ==
    LET c == Min({p.e, v.e, k})
        P == BigShift(p.ds, p.e - c)
        V == BigShift(DigitsOf(v.m), v.e - c)
        T == BigShift(<<"1">>, k - c)
        d == IF p.neg = v.neg THEN BigDist(P, V) ELSE BigAdd(P, V)
    IN  BigLeq(d, T)

FmtOf(v) == fmtOut # NotCalled /\ x = v

\* C1: for every finite number x, fmt(x) is "0" when |x| < 1e-12 and
\* otherwise x in fixed-point notation with 6 decimals, its trailing zeros
\* and then a trailing decimal point stripped; fmt(0.1) = "0.1",
\* fmt(1.5) = "1.5", fmt(1e-13) = "0" and fmt(-2) = "-2".
C1_FmtContract ==
    /\ fmtOut # NotCalled =>
          fmtOut[1] = IF AbsLtPow10(x, -12) THEN <<"0">>
                      ELSE StripPoint(StripZeros(FixedPoint(x, 6)))
    /\ FmtOf(Num(FALSE, 1, -1)) => Join(fmtOut[1]) = "0.1"
    /\ FmtOf(Num(FALSE, 15, -1)) => Join(fmtOut[1]) = "1.5"
    /\ FmtOf(Num(FALSE, 1, -13)) => Join(fmtOut[1]) = "0"
    /\ FmtOf(Num(TRUE, 2, 0)) => Join(fmtOut[1]) = "-2"

\* C2: for all x with |x| >= 1e-12, fmt(x) has no trailing zeros and no
\* trailing decimal point, and parses to a number within 1e-6 of x.
C2_FmtRoundTrip ==
    (fmtOut # NotCalled /\ AbsGeqPow10(x, -12)) =>
        /\ NoTrailingZeros(fmtOut[1])
        /\ NoTrailingPoint(fmtOut[1])
        /\ Within(ParseNumber(fmtOut[1]), x, -6)

\* The part of C1 and C2 that the code keeps: both hold of every x below
\* 10^21 in magnitude, where toFixed does render in fixed-point notation.
FmtBelow1e21 ==
    (fmtOut # NotCalled /\ AbsLtPow10(x, 21)) =>
        /\ fmtOut[1] = IF AbsLtPow10(x, -12) THEN <<"0">>
                       ELSE StripPoint(StripZeros(FixedPoint(x, 6)))
        /\ AbsGeqPow10(x, -12) =>
              /\ NoTrailingZeros(fmtOut[1])
              /\ NoTrailingPoint(fmtOut[1])
              /\ Within(ParseNumber(fmtOut[1]), x, -6)

(***************************************************************************)
(* explain.                                                                *)
(***************************************************************************)
\* The sentence the claim gives for a code [*]?[+-][+-].
ClaimedSentence(c) ==
    LET star == c[1] = "*"
        a == IF star THEN c[2] ELSE c[1]
        b == IF star THEN c[3] ELSE c[2]
    IN  (IF star THEN "leading coefficient is negative, " ELSE "")
        \o (IF a = "+" THEN "significant at alpha=0.05"
            ELSE "not better at alpha=0.05")
        \o ", "
        \o (IF b = "+" THEN "significant at alpha=0.01"
            ELSE "not better at alpha=0.01")

ExplainOf(c) == explOut # NotCalled /\ code = c

\* C3: for every code matching [*]?[+-][+-], explain(code) is the
\* comma-joined sentence of: "leading coefficient is negative" first iff the
\* code begins with '*'; then "significant" or "not better" at alpha=0.05 by
\* the first character after the optional '*'; then the same at alpha=0.01
\* by the second.
C3_ExplainSentence ==
    /\ (explOut # NotCalled /\ code \in ValidCodes) =>
           explOut[1] = ClaimedSentence(code)
    /\ ExplainOf(<<"+", "+">>) =>
           explOut[1] = "significant at alpha=0.05, significant at alpha=0.01"
    /\ ExplainOf(<<"+", "-">>) =>
           explOut[1] = "significant at alpha=0.05, not better at alpha=0.01"
    /\ ExplainOf(<<"*", "-", "+">>) =>
           explOut[1] = "leading coefficient is negative, "
                        \o "not better at alpha=0.05, significant at alpha=0.01"

\* explain has been applied to "*-+".
C3_Witness == ExplainOf(<<"*", "-", "+">>)

(***************************************************************************)
(* The rendered report.                                                    *)
(***************************************************************************)
Rendered == dom # <<>>

Tables == {i \in 1..Len(dom) : dom[i].tag = "table"}

CaptionOf(op) == "Operation: " \o op

\* The positions of the captions of operation op.
CaptionsOf(op) == {i \in 1..Len(dom) : /\ dom[i].cls = "rep-caption"
                                       /\ dom[i].text = CaptionOf(op)}

\* One table per operation, next to the operation's caption, with one body
\* row per model of the operation.
TablePerOperation ==
    /\ Cardinality(Tables) = Len(reportData)
    /\ \A e \in 1..Len(reportData) :
          /\ Cardinality(CaptionsOf(reportData[e].op)) = 1
          /\ \A i \in CaptionsOf(reportData[e].op) :
                /\ i + 1 \in Tables
                /\ Len(dom[i + 1].tbody) = Len(reportData[e].info.models)

CoefSlots == {"a0", "a1", "a2", "a3", "a4"}

\* The header cells of table t that are coefficient slots, and the others.
SlotColumns(t) == {i \in 1..Len(dom[t].thead) : dom[t].thead[i] \in CoefSlots}

FixedColumns(t) == {i \in 1..Len(dom[t].thead) : dom[t].thead[i] \notin CoefSlots}

\* C4, as claimed: one table per operation, as many body rows as the
\* operation has models, and as columns the declared coefficient slots plus
\* five fixed columns.
C4_FiveFixedColumns ==
    Rendered =>
        /\ TablePerOperation
        /\ \A t \in Tables : /\ Cardinality(SlotColumns(t)) = Cardinality(CoefSlots)
                             /\ Cardinality(FixedColumns(t)) = 5

\* C4, amended: one table per operation, as many body rows as the operation
\* has models, and as columns the five declared coefficient slots a0..a4
\* plus six fixed columns: degree, variance, standard deviation, code,
\* explanation and comment.
C4_SixFixedColumns ==
    Rendered =>
        /\ TablePerOperation
        /\ \A t \in Tables :
              /\ Cardinality(SlotColumns(t)) = Cardinality(CoefSlots)
              /\ {dom[t].thead[i] : i \in FixedColumns(t)}
                    = {"deg", "D[X]", "SD", "Code", "Explanation", "Comment"}
              /\ Len(dom[t].thead) = Cardinality(CoefSlots) + 6

\* A rendered report of two operations with different numbers of models.
C4_Witness ==
    /\ Rendered
    /\ Len(reportData) = 2
    /\ Len(reportData[1].info.models) = 2
    /\ Len(reportData[2].info.models) = 1

\* The texts of the captions, in the order of the output.
CaptionTexts ==
    LET caps == SelectSeq(dom, LAMBDA n : n.cls = "rep-caption")
    IN  [i \in 1..Len(caps) |-> caps[i].text]

\* C5: the report renders the operations in the insertion order of the
\* mapping, integer-like operation names included, each operation's
\* caption, table and image together in that order.
C5_InsertionOrder ==
    Rendered =>
        /\ CaptionTexts = [i \in 1..Len(reportData) |-> CaptionOf(reportData[i].op)]
        /\ \A e \in 1..Len(reportData) :
              \A i \in CaptionsOf(reportData[e].op) :
                 /\ dom[i + 1].tag = "table"
                 /\ dom[i + 2].tag = "img"
                 /\ dom[i + 2].src = "./assets/" \o reportData[e].info.image

\* C9: in every rendered table every body row has as many cells as the
\* header row, for every coef sequence of length 0 to 5.
C9_RowsLineUp ==
    Rendered =>
        \A t \in Tables :
           /\ Len(dom[t].thead) = 11
           /\ \A r \in 1..Len(dom[t].tbody) :
                 Len(dom[t].tbody[r].cells) = Len(dom[t].thead)

(***************************************************************************)
(* The export.                                                             *)
(***************************************************************************)
\* The calls of save() made for export i.
SavesOf(i) == {k \in 1..Len(saves) : saves[k].export = i}

StageOf(i) == IF i \in 1..Len(exports) THEN exports[i].stage ELSE "none"

\* downloadPdf runs in this step.
Triggered == clicks' = clicks + 1

\* C6: each trigger of the export, once the library has loaded, leads to
\* exactly one conversion invocation, made against the rendered report
\* container with the fixed configuration (margins 10 mm, JPEG quality 0.98,
\* canvas scale 1 with the width the container's scroll width, A4 portrait,
\* no page break in .rep-table and .rep-img) and the filename
\* regression.pdf; no conversion is invoked without a preceding trigger.
C6_TriggerConverts ==
    /\ [](\A k \in 1..Len(saves) :
             /\ saves[k].export \in 1..clicks
             /\ Rendered
             /\ saves[k].el = "div.rep-body"
             /\ saves[k].opt.margin = <<10, 10, 10, 10>>
             /\ saves[k].opt.filename = "regression.pdf"
             /\ saves[k].opt.image = [type |-> "jpeg", quality |-> Num(FALSE, 98, -2)]
             /\ saves[k].opt.html2canvas.scale = 1
             /\ saves[k].opt.html2canvas.width
                   = exports[saves[k].export].opt.html2canvas.width
             /\ saves[k].opt.jsPDF
                   = [unit |-> "mm", format |-> "a4", orientation |-> "portrait"]
             /\ saves[k].opt.pagebreak.avoid = <<".rep-table", ".rep-img">>)
    /\ [][Triggered => exports'[clicks'].opt.html2canvas.width = scrollWidth]_vars
    /\ [](\A i \in 1..MaxExports : Cardinality(SavesOf(i)) <= 1)
    /\ \A i \in 1..MaxExports :
          (StageOf(i) = "loaded") ~> (Cardinality(SavesOf(i)) = 1)

\* The library has loaded for an export and its conversion has been invoked.
C6_Witness == \E i \in 1..Len(exports) : /\ exports[i].stage = "saved"
                                         /\ Cardinality(SavesOf(i)) = 1

\* The export i fails in this step.
Fails(i) == /\ StageOf(i) \in {"importing", "saving"}
            /\ exports'[i].stage = "rejected"

\* C7: when loading the library or the conversion fails, the failure is not
\* caught: it ends as an unhandled rejection, the export is not retried
\* (no further import, no further conversion, the export stays failed), and
\* the rendered report and the report data are as before the trigger.
C7_FailureUnhandled ==
    /\ [][\A i \in 1..MaxExports :
             /\ Fails(i) => /\ i \in unhandled'
                            /\ importCalls' = importCalls
                            /\ saves' = saves
                            /\ dom' = dom
                            /\ reportData' = reportData
             /\ StageOf(i) = "rejected" =>
                    /\ exports'[i] = exports[i]
                    /\ SavesOf(i) = {k \in 1..Len(saves') : saves'[k].export = i}]_vars
    /\ [](importCalls = clicks)
    /\ [](\A i \in 1..Len(exports) :
             exports[i].stage = "rejected" <=> i \in unhandled)

\* One export has failed while loading and another while converting.
C7_Witness ==
    \E i, j \in 1..Len(exports) :
       /\ exports[i].stage = "rejected" /\ SavesOf(i) = {}
       /\ exports[j].stage = "rejected" /\ SavesOf(j) # {}
       /\ unhandled = {i, j}

\* The cell of the code column of row r of table t.
CodeColumn(t, r) == LET cells == dom[t].tbody[r].cells
                    IN  cells[Len(cells) - 2]

\* C8: the report data is read-only: no render, fmt or explain call or
\* export, successful or failed, changes it; explain's consumption of a
\* leading '*' leaves the model's code as it is, shown in full in the code
\* column.
C8_DataReadOnly ==
    /\ [][reportData' = reportData]_vars
    /\ [](Rendered =>
            \A e \in 1..Len(reportData) :
               \A i \in CaptionsOf(reportData[e].op) :
                  \A r \in 1..Len(reportData[e].info.models) :
                     CodeColumn(i + 1, r) = Join(reportData[e].info.models[r].code))

\* A report with a '*' code has been rendered, and exports have both
\* succeeded and failed.
C8_Witness ==
    /\ Rendered
    /\ \E e \in 1..Len(reportData) :
          \E r \in 1..Len(reportData[e].info.models) :
             reportData[e].info.models[r].code[1] = "*"
    /\ \E i \in 1..Len(exports) : exports[i].stage = "saved"
    /\ unhandled # {}

\* No export is waiting for its import or for its callback.
Settled == \A i \in 1..Len(exports) :
              exports[i].stage \in {"saving", "saved", "rejected"}

\* C10, as claimed: triggering the export n times yields n conversion
\* invocations.
C10_EveryTriggerConverts == Settled => Len(saves) = clicks

\* C10, amended: the export has no re-entrancy guard: n triggers, in any
\* interleaving with exports in flight, start n independent exports, and
\* each export whose library load succeeds yields exactly one conversion
\* invocation, which uses the configuration, the container width included,
\* taken at the moment of its own trigger.
C10_IndependentExports ==
    /\ [](Len(exports) = clicks /\ importCalls = clicks)
    /\ []((Rendered /\ clicks < MaxExports) => ENABLED downloadPdf)
    /\ [][Triggered => /\ exports'[clicks'].opt.html2canvas.width = scrollWidth
                       /\ exports'[clicks'].el = "div.rep-body"
                       /\ \A i \in 1..clicks : exports'[i] = exports[i]]_vars
    /\ [][\A i \in 1..Len(exports) :
             /\ exports'[i].opt = exports[i].opt
             /\ (StageOf(i) = "loaded" /\ exports'[i].stage # "loaded") =>
                    /\ exports'[i].stage = "saving"
                    /\ Len(saves') = Len(saves) + 1]_vars
    /\ [](\A i \in 1..Len(exports) :
             /\ exports[i].stage \in {"importing", "loaded"} => SavesOf(i) = {}
             /\ exports[i].stage \in {"saving", "saved"} =>
                    Cardinality(SavesOf(i)) = 1
             /\ Cardinality(SavesOf(i)) <= 1
             /\ \A k \in SavesOf(i) : /\ saves[k].opt = exports[i].opt
                                      /\ saves[k].el = exports[i].el)

\* Two exports were in flight together, took different widths, and the
\* second was converted first.
C10_Witness ==
    /\ Len(saves) = 2
    /\ saves[1].export = 2
    /\ saves[2].export = 1
    /\ saves[1].opt.html2canvas.width # saves[2].opt.html2canvas.width
=============================================================================
